---------------------------- MODULE Spec2Model ----------------------------
(***************************************************************************)
(* Model of the pm-node agent (src/index.js): the PMNode object with its   *)
(* control connection (rawSocket / mux / rpc / pingInterval), its process  *)
(* list, and the closures that spawn() attaches to every child process.    *)
(*                                                                         *)
(* Objects are numbered.  Socket s is the s-th socket created by           *)
(* net.createConnection; the Mux and the RPC built by                      *)
(* _onRawSocketConnection are named by the socket they are built on, and   *)
(* 0 stands for null.  Child i is the i-th ChildProcess returned by        *)
(* child_process.spawn; the record of the agent itself has id 0.           *)
(*                                                                         *)
(* Every action is one event-loop callback (or one call of a public        *)
(* method) run to completion.  Callbacks queued with process.nextTick run  *)
(* before any other event is handled, which is what the guard Quiet says.  *)
(* The variable last names the callback that has just run and what it      *)
(* returned to its caller; when control is back in the event loop          *)
(* (EventLoop) it is Idle, and only then is the next callback taken.       *)
(*                                                                         *)
(* Left out: name and coreId of a record (copied through unchanged), the   *)
(* payload of the heartbeat call (it is only logged) and getInfo (no       *)
(* state).                                                                 *)
(***************************************************************************)
EXTENDS Integers, Sequences, FiniteSets

\* bounds of the model
MaxSockets == 2
MaxProcs == 2

\* process.pid of the agent
SelfPid == 1

VARIABLES
  rawSocket,     \* this.rawSocket: 0 or a socket
  mux,           \* this.mux: 0 or the socket the Mux is built on
  rpc,           \* this.rpc: 0 or the socket the RPC is built on
  pingInterval,  \* this.pingInterval is set
  timers,        \* number of setInterval calls made so far
  nsock,         \* number of sockets created so far
  sock,          \* state of every socket
  muxSt,         \* state of the Mux built on every socket
  processes,     \* this.processes: sequence of procInfo records
  nproc,         \* number of ChildProcess objects created so far
  procs,         \* closure state of every spawn() call that got a ChildProcess,
  last           \* the callback that ran last, and what it returned

vars == <<rawSocket, mux, rpc, pingInterval, timers, nsock, sock, muxSt,
          processes, nproc, procs, last>>

session == <<rawSocket, mux, rpc>>
timer == <<pingInterval, timers>>
network == <<nsock, sock, muxSt>>
children == <<processes, nproc, procs>>

Sockets == 1..MaxSockets
Procs == 1..MaxProcs
Signals == {"SIGTERM", "SIGKILL"}

\* the value of last after a callback
\* (ret: what the caller got back; err: the message of the Error, if any)
Ev(ev, id, arg, ret, err) ==
  [ev |-> ev, id |-> id, arg |-> arg, ret |-> ret, err |-> err]

----------------------------------------------------------------------------
\* procInfo records

\* the record the constructor puts into this.processes
SelfRecord == [id |-> 0, pid |-> SelfPid, proc |-> TRUE, protected |-> TRUE,
               promise |-> "none"]

\* pid of the i-th ChildProcess; 0 is undefined (the launch failed)
ChildPid(i, launch) == IF launch = "ok" THEN SelfPid + i ELSE 0

\* the procInfo object spawn() builds
ProcInfo(i, launch, promise) ==
  [id |-> i, pid |-> ChildPid(i, launch), proc |-> TRUE, protected |-> FALSE,
   promise |-> promise]

\* toPublicProcInfo: a copy without the _proc property
toPublicProcInfo(info) == [info EXCEPT !.proc = FALSE]

\* a Q deferred is settled once: later resolve/reject calls do nothing
Settle(d, to) == IF d = "pending" THEN to ELSE d

UnusedProc == [st |-> "unused", launch |-> "ok", promise |-> "creation",
               masterRpc |-> 0, lastProcError |-> FALSE,
               deferred |-> "pending", payload |-> -1, returned |-> FALSE,
               pc |-> "idle", notified |-> 0, pipes |-> {}, endVia |-> 0]

\* control is in the event loop
Idle == Ev("idle", 0, "none", "none", "none")

\* the event loop may take an event: the nextTick queue is empty
Quiet == last = Idle /\ \A i \in Procs : procs[i].pc = "idle"

----------------------------------------------------------------------------
Init ==
  /\ rawSocket = 0
  /\ mux = 0
  /\ rpc = 0
  /\ pingInterval = FALSE
  /\ timers = 0
  /\ nsock = 0
  /\ sock = [s \in Sockets |-> "unused"]
  /\ muxSt = [s \in Sockets |-> "none"]
  /\ processes = <<SelfRecord>>
  /\ nproc = 0
  /\ procs = [i \in Procs |-> UnusedProc]
  /\ last = Idle

----------------------------------------------------------------------------
\* the connection

\* faulty variant: the guard looks at this.rpc alone
AlreadyConnectedRpcOnly == rpc # 0

\* connect: the guard "client is conencted"
AlreadyConnected == rpc # 0 \/ rawSocket # 0

\* faulty variant: connect makes a timer whenever opts.ping is set
startsTimerAlways(ping) == ping

\* connect: the condition under which setInterval is called
startsTimer(ping) == ~pingInterval /\ ping

\* body of connect(opts); ev names the caller (connect or the ping interval)
connect(ev, ping) ==
  IF AlreadyConnected
  THEN /\ last' = Ev(ev, 0, "connect", "fulfilledError", "client is conencted")
       /\ UNCHANGED <<session, network, timer>>
  ELSE /\ nsock < MaxSockets
       /\ nsock' = nsock + 1
       /\ rawSocket' = nsock + 1
       /\ sock' = [sock EXCEPT ![nsock + 1] = "connecting"]
       /\ IF startsTimer(ping)
          THEN pingInterval' = TRUE /\ timers' = timers + 1
          ELSE UNCHANGED timer
       /\ last' = Ev(ev, nsock + 1, "connect", "pending", "none")
       /\ UNCHANGED <<mux, rpc, muxSt>>

\* a call of connect from outside (bin/pm-node, or any holder of the object)
Connect(ping) ==
  /\ Quiet
  /\ connect("connect", ping)
  /\ UNCHANGED children

\* _onRawSocketConnection
onRawSocketConnection ==
  IF rawSocket = 0 \/ mux # 0 \/ rpc # 0
  THEN UNCHANGED <<session, muxSt>>
  ELSE /\ mux' = rawSocket
       /\ rpc' = rawSocket
       /\ muxSt' = [muxSt EXCEPT ![rawSocket] = "alive"]
       /\ UNCHANGED rawSocket

\* 'connect' of socket s: _onRawSocketConnection, then deferred.resolve
SocketConnect(s) ==
  /\ Quiet
  /\ sock[s] = "connecting"
  /\ sock' = [sock EXCEPT ![s] = "connected"]
  /\ onRawSocketConnection
  /\ last' = Ev("socketConnect", s, "none", "fulfilled", "none")
  /\ UNCHANGED <<timer, nsock, children>>

\* 'error' of a socket that is still connecting: deferred.reject
SocketError(s) ==
  /\ Quiet
  /\ sock[s] = "connecting"
  /\ sock' = [sock EXCEPT ![s] = "errored"]
  /\ last' = Ev("socketError", s, "none", "rejected", "socket error")
  /\ UNCHANGED <<session, timer, nsock, muxSt, children>>

\* faulty variant: the handlers forget to clear this.rawSocket
teardownKeepsSocket ==
  /\ mux' = 0
  /\ rpc' = 0
  /\ UNCHANGED rawSocket

\* _onRawSocketClose and _onMuxError
teardown ==
  /\ mux' = 0
  /\ rpc' = 0
  /\ rawSocket' = 0

\* faulty variant: the close of a socket also forgets the children
SocketCloseForgets(s) ==
  /\ Quiet
  /\ sock[s] \in {"connected", "errored"}
  /\ sock' = [sock EXCEPT ![s] = "closed"]
  /\ teardown
  /\ processes' = <<SelfRecord>>
  /\ last' = Ev("socketClose", s, "none", "none", "none")
  /\ UNCHANGED <<timer, nsock, muxSt, nproc, procs>>

\* 'close' of socket s
SocketClose(s) ==
  /\ Quiet
  /\ sock[s] \in {"connected", "errored"}
  /\ sock' = [sock EXCEPT ![s] = "closed"]
  /\ teardown
  /\ last' = Ev("socketClose", s, "none", "none", "none")
  /\ UNCHANGED <<timer, nsock, muxSt, children>>

\* 'error' of the Mux built on socket s (the handler is registered once)
MuxError(s) ==
  /\ Quiet
  /\ muxSt[s] = "alive"
  /\ sock[s] # "closed"
  /\ muxSt' = [muxSt EXCEPT ![s] = "errored"]
  /\ teardown
  /\ last' = Ev("muxError", s, "none", "none", "none")
  /\ UNCHANGED <<timer, nsock, sock, children>>

\* _onPingInterval
PingInterval ==
  /\ Quiet
  /\ pingInterval
  /\ IF rpc # 0
     THEN /\ last' = Ev("tick", rpc, "loop", "none", "none")
          /\ UNCHANGED <<session, network, timer>>
     ELSE connect("tick", TRUE)
  /\ UNCHANGED children

----------------------------------------------------------------------------
\* the process list

\* Array.prototype.indexOf on this.processes (object identity); 0 is -1
indexOf(list, id) ==
  IF \E k \in 1..Len(list) : list[k].id = id
  THEN CHOOSE k \in 1..Len(list) :
         /\ list[k].id = id
         /\ \A j \in 1..(k - 1) : list[j].id # id
  ELSE 0

\* Array.prototype.splice(index, 1), index counted from 1
splice(list, k) == [j \in 1..(Len(list) - 1) |-> IF j < k THEN list[j] ELSE list[j + 1]]

\* faulty variant: the removal is one place off
removeProcInfoShifted(list, id) ==
  IF indexOf(list, id) > 0 THEN splice(list, indexOf(list, id) - 1) ELSE list

\* faulty variant: the close handler leaves the record in the list
removeProcInfoNever(list, id) == list

\* faulty variant: the close handler takes the last record off the list
removeProcInfoLast(list, id) ==
  IF indexOf(list, id) > 0 THEN splice(list, Len(list)) ELSE list

\* the close handler's removal of procInfo from the list
removeProcInfo(list, id) ==
  IF indexOf(list, id) > 0 THEN splice(list, indexOf(list, id)) ELSE list

\* _.findWhere(this.processes, {pid: pid}): index of the first match, or 0
findWhere(list, pid) ==
  IF \E k \in 1..Len(list) : list[k].pid = pid
  THEN CHOOSE k \in 1..Len(list) :
         /\ list[k].pid = pid
         /\ \A j \in 1..(k - 1) : list[j].pid # pid
  ELSE 0

\* faulty variant: the deferred is never resolved at creation
deferredAtReturnPending(promise) == "pending"

\* spawn: the state of the deferred when spawn returns
deferredAtReturn(promise) ==
  IF promise = "creation" THEN "fulfilled" ELSE "pending"

\* spawn: the validation of opts, "ok" or the message of the Error
spawnInvalid(command, promise) ==
  IF command = "missing" THEN "command is required"
  ELSE IF promise \notin {"creation", "execution"}
       THEN "promise type is not supported"
       ELSE "ok"

\* spawn(opts).  promiseOpt "unset" takes the default 'creation'.  launch is
\* what child_process.spawn does: "throw" (it throws), "ok", or "asyncfail"
\* (it returns a ChildProcess without pid that emits 'error' from the
\* nextTick queue and then 'close').
Spawn(command, promiseOpt, stdout, stderr, launch) ==
  LET promise == IF promiseOpt = "unset" THEN "creation" ELSE promiseOpt
      invalid == spawnInvalid(command, promise)
      i == nproc + 1
      \* this.mux.createStream with this.mux null: a TypeError leaves spawn
      throws == promise = "execution" /\ (stdout \/ stderr) /\ mux = 0
      piped == IF promise = "execution" /\ ~throws
               THEN (IF stdout THEN {"stdout"} ELSE {}) \cup
                    (IF stderr THEN {"stderr"} ELSE {})
               ELSE {}
  IN
  /\ Quiet
  /\ IF invalid # "ok"
     THEN /\ last' = Ev("spawn", 0, "invalid", "fulfilledError", invalid)
          /\ UNCHANGED children
     ELSE IF launch = "throw"
     THEN /\ last' = Ev("spawn", 0, "throw", "fulfilledError", "spawn error")
          /\ UNCHANGED children
     ELSE /\ nproc < MaxProcs
          /\ nproc' = i
          /\ processes' = Append(processes, ProcInfo(i, launch, promise))
          /\ procs' = [procs EXCEPT ![i] =
               [st |-> "running", launch |-> launch, promise |-> promise,
                masterRpc |-> rpc, lastProcError |-> FALSE,
                deferred |-> deferredAtReturn(promise), payload |-> -1,
                returned |-> ~throws,
                pc |-> IF launch = "asyncfail" THEN "errNT"
                       ELSE IF promise = "execution" /\ ~throws THEN "notifyNT"
                       ELSE "idle",
                notified |-> 0, pipes |-> piped, endVia |-> 0]]
          /\ last' = Ev("spawn", i, launch,
                        IF throws THEN "threw" ELSE deferredAtReturn(promise),
                        IF throws THEN "TypeError" ELSE "none")
  /\ UNCHANGED <<session, network, timer>>

\* the 'error' a ChildProcess emits from the nextTick queue when its launch
\* failed: the proc.on('error') handler, ahead of spawn's own nextTick
ProcLaunchError(i) ==
  /\ last = Idle
  /\ procs[i].pc = "errNT"
  /\ procs' = [procs EXCEPT ![i].lastProcError = TRUE,
                            ![i].pc = IF procs[i].promise = "execution"
                                         /\ procs[i].returned
                                      THEN "notifyNT" ELSE "idle"]
  /\ last' = Ev("procError", i, "launch", "none", "none")
  /\ UNCHANGED <<session, network, timer, processes, nproc>>

\* faulty variant: the nextTick function notifies whatever lastProcError is
NotifyTickAlways(i) ==
  /\ last = Idle
  /\ procs[i].pc = "notifyNT"
  /\ procs' = [procs EXCEPT ![i].pc = "idle",
                            ![i].notified =
                               IF procs[i].deferred = "pending"
                               THEN @ + 1 ELSE @]
  /\ last' = Ev("nextTick", i, "none", "none", "none")
  /\ UNCHANGED <<session, network, timer, processes, nproc>>

\* the function spawn gives to process.nextTick
NotifyTick(i) ==
  /\ last = Idle
  /\ procs[i].pc = "notifyNT"
  /\ procs' = [procs EXCEPT ![i].pc = "idle",
                            ![i].notified =
                               IF ~procs[i].lastProcError
                                  /\ procs[i].deferred = "pending"
                               THEN @ + 1 ELSE @]
  /\ last' = Ev("nextTick", i, "none", "none", "none")
  /\ UNCHANGED <<session, network, timer, processes, nproc>>

\* proc.on('error') for a running process
ProcError(i) ==
  /\ Quiet
  /\ procs[i].st = "running"
  /\ procs[i].launch = "ok"
  /\ procs' = [procs EXCEPT ![i].lastProcError = TRUE]
  /\ last' = Ev("procError", i, "runtime", "none", "none")
  /\ UNCHANGED <<session, network, timer, processes, nproc>>

\* close handler: how an execution promise is settled
settleAtClose(error, code) ==
  IF error THEN "rejected" ELSE IF code # 0 THEN "rejected" ELSE "fulfilled"

\* proc.on('close') with exit code `code`.  last holds the code and the error
\* that go into procFinInfo, endVia the RPC that onProcessEnd was called on.
\* The process is gone: its output streams have ended, which ends their
\* pipes, and the variables of the closure are dropped.
ProcClose(i, code) ==
  LET p == procs[i]
      to == IF p.promise = "execution"
            THEN Settle(p.deferred, settleAtClose(p.lastProcError, code))
            ELSE p.deferred
  IN
  /\ Quiet
  /\ p.st = "running"
  /\ p.launch = "asyncfail" => code # 0
  /\ processes' = removeProcInfo(processes, i)
  /\ procs' = [procs EXCEPT ![i].st = "closed",
                            ![i].pipes = {},
                            ![i].masterRpc = 0,
                            ![i].lastProcError = FALSE,
                            ![i].launch = "ok",
                            ![i].returned = FALSE,
                            ![i].notified = 0,
                            ![i].endVia = p.masterRpc,
                            ![i].deferred = to,
                            ![i].payload =
                               IF p.deferred = "pending" /\ to = "fulfilled"
                               THEN code ELSE @]
  /\ last' = Ev("procClose", i, code, to,
                IF p.lastProcError THEN "process error" ELSE "none")
  /\ UNCHANGED <<session, network, timer, nproc>>

\* 'error' of a sub-stream a child's output is piped to: unpipe and resume
StreamError(i, which) ==
  /\ Quiet
  /\ procs[i].st = "running"
  /\ which \in procs[i].pipes
  /\ procs' = [procs EXCEPT ![i].pipes = @ \ {which}]
  /\ last' = Ev("streamError", i, which, "none", "none")
  /\ UNCHANGED <<session, network, timer, processes, nproc>>

\* faulty variant: kill without the check of procInfo.protected
killErrorUnprotected(pid) ==
  IF pid = 0 THEN "pid is required"
  ELSE IF findWhere(processes, pid) = 0 THEN "pid not found"
  ELSE IF ~processes[findWhere(processes, pid)].proc
       THEN "invalid procInfo object"
  ELSE "ok"

\* kill: "ok" or the message of the Error the deferred is rejected with
killError(pid) ==
  IF pid = 0 THEN "pid is required"
  ELSE IF findWhere(processes, pid) = 0 THEN "pid not found"
  ELSE IF processes[findWhere(processes, pid)].protected
       THEN "process is protected"
  ELSE IF ~processes[findWhere(processes, pid)].proc
       THEN "invalid procInfo object"
  ELSE "ok"

\* faulty variant: a fulfilled kill also takes the record off the list
KillAndForget(pid, signal) ==
  /\ Quiet
  /\ last' = IF killError(pid) = "ok"
             THEN Ev("kill", pid, signal, "fulfilled", "none")
             ELSE Ev("kill", pid, "none", "rejected", killError(pid))
  /\ processes' = IF killError(pid) = "ok"
                  THEN splice(processes, findWhere(processes, pid))
                  ELSE processes
  /\ UNCHANGED <<session, network, timer, nproc, procs>>

\* kill(opts); pid 0 is a missing pid.  A fulfilled kill has called
\* procInfo._proc.kill(signal): last.arg is the signal delivered.
Kill(pid, signal) ==
  /\ Quiet
  /\ last' = IF killError(pid) = "ok"
             THEN Ev("kill", pid, signal, "fulfilled", "none")
             ELSE Ev("kill", pid, "none", "rejected", killError(pid))
  /\ UNCHANGED <<session, network, timer, children>>

\* getProcesses: usage.lookup of every pid; one failure rejects the whole
GetProcesses(lookupOk) ==
  /\ Quiet
  /\ last' = Ev("getProcesses", Len(processes), "none",
                IF lookupOk THEN "fulfilled" ELSE "rejected",
                IF lookupOk THEN "none" ELSE "lookup error")
  /\ UNCHANGED <<session, network, timer, children>>

\* the callback has returned: control is back in the event loop
EventLoop ==
  /\ last # Idle
  /\ last' = Idle
  /\ UNCHANGED <<session, network, timer, children>>

----------------------------------------------------------------------------
\* the opts spawn is called with: every combination for a valid call, and
\* the invalid calls without output labels
SpawnOpts ==
  [command : {"cmd"}, promise : {"unset", "creation", "execution"},
   stdout : BOOLEAN, stderr : BOOLEAN]
  \cup [command : {"missing"}, promise : {"unset", "execution", "bogus"},
        stdout : {FALSE}, stderr : {FALSE}]
  \cup [command : {"cmd"}, promise : {"bogus"}, stdout : {FALSE}, stderr : {FALSE}]

Next ==
  \/ \E o \in SpawnOpts, launch \in {"ok", "throw", "asyncfail"} :
          Spawn(o.command, o.promise, o.stdout, o.stderr, launch)
  \/ \E i \in Procs : ProcLaunchError(i)
  \/ \E i \in Procs : NotifyTick(i)
  \/ \E i \in Procs : ProcError(i)
  \/ \E i \in Procs, code \in {0, 1} : ProcClose(i, code)
  \/ \E i \in Procs, which \in {"stdout", "stderr"} : StreamError(i, which)
  \/ \E pid \in 0..(SelfPid + MaxProcs), signal \in Signals : Kill(pid, signal)
  \/ \E lookupOk \in BOOLEAN : GetProcesses(lookupOk)
  \/ EventLoop
  \/ \E ping \in BOOLEAN : Connect(ping)
  \/ \E s \in Sockets : SocketConnect(s)
  \/ \E s \in Sockets : SocketError(s)
  \/ \E s \in Sockets : SocketClose(s)
  \/ \E s \in Sockets : MuxError(s)
  \/ PingInterval

Spec == Init /\ [][Next]_vars

\* the connection alone: no call of spawn, kill or getProcesses is made.
\* The callbacks of the connection read and write no variable of the
\* children, and those of the children write none of the connection.
NextConn ==
  \/ \E ping \in BOOLEAN : Connect(ping)
  \/ \E s \in Sockets : SocketConnect(s)
  \/ \E s \in Sockets : SocketError(s)
  \/ \E s \in Sockets : SocketClose(s)
  \/ \E s \in Sockets : MuxError(s)
  \/ PingInterval
  \/ EventLoop

SpecConn == Init /\ [][NextConn]_vars

----------------------------------------------------------------------------
\* Properties

\* C1: whenever the close event of a child is handled while this.rpc is set,
\* onProcessEnd is called on that RPC (the one of the current Session).
C1_EndSentThroughCurrentSession ==
  [][(last'.ev = "procClose" /\ rpc # 0)
       => procs'[last'.id].endVia = rpc]_vars

\* C2: a connect while rpc or rawSocket is set returns a failed operation
\* and changes nothing: no socket is opened, rawSocket, mux, rpc, the
\* process list and the heartbeat timer stay as they are.
C2_ConnectWhileSessionFails ==
  [][(last'.arg = "connect" /\ AlreadyConnected)
       => /\ last'.ret = "rejected"
          /\ UNCHANGED <<session, network, timer, processes>>]_vars

\* C3 (its second half): once a Session is established, rpc stays set until
\* a teardown event of that Session, i.e. the close of its own socket or
\* the error of its own Mux.
C3_SessionStaysUntilOwnTeardown ==
  [][(rpc # 0 /\ rpc' = 0)
       => (last'.ev \in {"socketClose", "muxError"} /\ last'.id = rpc)]_vars

\* C4 as stated: a heartbeat tick opens exactly one new socket when rpc is
\* absent, and none when rpc is present.
C4_TickOpensSocketIffDetached ==
  [][last'.ev = "tick"
       => IF rpc = 0 THEN nsock' = nsock + 1 ELSE nsock' = nsock]_vars

\* C4 as amended: a heartbeat tick opens exactly one new socket (which
\* becomes rawSocket, connecting) when rpc and rawSocket are both absent;
\* when rpc is present, or a connection attempt is in progress (rawSocket
\* present), it opens none and leaves rawSocket, mux, rpc and the sockets
\* as they are.
C4_TickOpensSocketIffNoSocket ==
  [][last'.ev = "tick"
       => IF rpc = 0 /\ rawSocket = 0
          THEN /\ nsock' = nsock + 1
               /\ rawSocket' = nsock'
               /\ sock' = [sock EXCEPT ![nsock'] = "connecting"]
               /\ last'.ret = "pending"
               /\ UNCHANGED <<mux, rpc>>
          ELSE UNCHANGED <<session, network>>]_vars

\* a tick after a teardown has opened the second socket
C4_Witness ==
  /\ last.ev = "tick"
  /\ last.ret = "pending"
  /\ rawSocket = 2
  /\ sock[1] = "closed"

\* C5: an execution-mode spawn that launched a process gives its caller an
\* operation that is pending while the process runs; at close it is
\* fulfilled, with exit code 0 in the payload, iff the code is 0 and no
\* process error was observed, and rejected otherwise; once settled, the
\* record is not in the list.
C5_ExecutionSettlesAtClose ==
  \A i \in Procs :
    procs[i].promise = "execution" =>
      /\ (procs[i].st = "running" /\ procs[i].launch = "ok")
           => (procs[i].returned /\ procs[i].deferred = "pending")
      /\ procs[i].st = "closed"
           => /\ procs[i].deferred \in {"fulfilled", "rejected"}
              /\ procs[i].deferred = "fulfilled" => procs[i].payload = 0
              /\ indexOf(processes, i) = 0
      /\ (last.ev = "procClose" /\ last.id = i)
           => (procs[i].deferred = "fulfilled"
                 <=> (last.arg = 0 /\ last.err = "none"))

\* C6: a creation-mode spawn is fulfilled with the record (no exit code in
\* it) when spawn returns, while the process runs and its record is in the
\* list; no later error or exit changes that outcome.
C6_CreationFulfilledAtOnce ==
  /\ \A i \in Procs :
       (procs[i].st # "unused" /\ procs[i].promise = "creation")
         => (procs[i].deferred = "fulfilled" /\ procs[i].payload = -1)
  /\ (last.ev = "spawn" /\ last.id # 0
        /\ procs[last.id].promise = "creation")
       => /\ last.ret = "fulfilled"
          /\ procs[last.id].st = "running"
          /\ indexOf(processes, last.id) > 0
          /\ processes[indexOf(processes, last.id)] =
               ProcInfo(last.id, last.arg, "creation")

\* a creation-mode child has closed with a process error and a non-zero
\* exit code
C6_Witness ==
  /\ last.ev = "procClose"
  /\ procs[last.id].promise = "creation"
  /\ last.arg = 1
  /\ last.err = "process error"

\* C7: a spawn whose launch fails returns a failed operation, adds no
\* record to the list, and no onProcessEnd is sent for it.
C7_LaunchFailureLeavesNoTrace ==
  /\ (last.ev = "spawn" /\ last.arg \in {"throw", "asyncfail"})
       => (last.ret = "rejected" /\ last.id = 0)
  /\ \A i \in Procs :
       procs[i].launch = "asyncfail"
         => (indexOf(processes, i) = 0 /\ procs[i].endVia = 0)

\* C8: a spawn that fails validation returns a failed operation, launches
\* no process and leaves the list and the connection as they are.
C8_InvalidSpawnFails ==
  [][(last'.ev = "spawn" /\ last'.arg = "invalid")
       => /\ last'.ret = "rejected"
          /\ UNCHANGED <<session, network, timer, children>>]_vars

\* C9: kill on the agent's own pid is rejected with "process is protected"
\* whatever the signal, delivers no signal and leaves the list as it is.
C9_KillSelfProtected ==
  [][(last'.ev = "kill" /\ last'.id = SelfPid)
       => /\ last'.ret = "rejected"
          /\ last'.err = "process is protected"
          /\ last'.arg = "none"
          /\ UNCHANGED processes]_vars

\* kill was called on the agent's own pid while a child was in the list
C9_Witness ==
  /\ last.ev = "kill"
  /\ last.id = SelfPid
  /\ Len(processes) > 1

\* C10: the list holds exactly one protected record, the one the
\* constructor made for the agent itself.
C10_OneProtectedRecord ==
  /\ Cardinality({k \in 1..Len(processes) : processes[k].protected}) = 1
  /\ \E k \in 1..Len(processes) : processes[k] = SelfRecord

\* both children were spawned and the first of them has closed
C10_Witness ==
  /\ last.ev = "procClose"
  /\ last.id = 1
  /\ nproc = MaxProcs
  /\ Len(processes) = MaxProcs

\* C11: a fulfilled kill has delivered its signal to a process whose record
\* is in the list and changes nothing of the list or of the children; a
\* record leaves the list only in the close handler of its own process.
C11_OnlyCloseRemovesRecord ==
  [][/\ (last'.ev = "kill" /\ last'.ret = "fulfilled")
          => /\ last'.arg \in Signals
             /\ findWhere(processes', last'.id) > 0
             /\ ~toPublicProcInfo(processes'[findWhere(processes', last'.id)]).proc
             /\ UNCHANGED children
     /\ \A k \in 1..Len(processes) :
          indexOf(processes', processes[k].id) = 0
            => (last'.ev = "procClose" /\ last'.id = processes[k].id)]_vars

\* a kill of a running child was fulfilled and the child's record is there
C11_Witness ==
  /\ last.ev = "kill"
  /\ last.ret = "fulfilled"
  /\ last.id > SelfPid
  /\ procs[last.id - SelfPid].st = "running"
  /\ indexOf(processes, last.id - SelfPid) > 0

\* C12: once the close handler of a child has run, a kill with that child's
\* pid is rejected with "pid not found" and delivers no signal.
C12_KillAfterCloseNotFound ==
  \A i \in Procs :
    procs[i].st = "closed"
      => /\ killError(SelfPid + i) = "pid not found"
         /\ (last.ev = "kill" /\ last.id = SelfPid + i)
              => /\ last.ret = "rejected"
                 /\ last.err = "pid not found"
                 /\ last.arg = "none"

\* kill was called with the pid of a child whose close handler has run
C12_Witness ==
  /\ last.ev = "kill"
  /\ last.id > SelfPid
  /\ procs[last.id - SelfPid].st = "closed"
  /\ last.err = "pid not found"

\* C13: between callbacks mux and rpc are both set or both null, rawSocket
\* is set whenever one of them is, and a socket close or a mux error leaves
\* all three null.
C13_SessionWhole ==
  /\ (mux # 0) <=> (rpc # 0)
  /\ (mux # 0 \/ rpc # 0) => rawSocket # 0
  /\ last.ev \in {"socketClose", "muxError"}
       => (mux = 0 /\ rpc = 0 /\ rawSocket = 0)

\* the Mux of a connected socket reported an error and the Session is gone
C13_Witness ==
  /\ last.ev = "muxError"
  /\ sock[last.id] = "connected"
  /\ rawSocket = 0

\* C14: setInterval is called at most once in the life of the agent, and the
\* timer it made is still the agent's pingInterval whatever connects, ticks
\* and teardowns have happened since.
C14_OneHeartbeatTimer ==
  /\ timers <= 1
  /\ pingInterval <=> (timers = 1)

\* the timer's tick has opened a second socket after the first Session was
\* torn down, and the timer is still the first one
C14_Witness ==
  /\ last.ev = "tick"
  /\ last.ret = "pending"
  /\ nsock = 2
  /\ sock[1] \in {"connected", "closed"}
  /\ timers = 1
  /\ pingInterval

\* C15: whenever onProcessEnd has been sent for a child, the record of that
\* child is no longer in the list.
C15_RecordGoneWhenEndSent ==
  \A i \in Procs :
    procs[i].endVia # 0
      => /\ indexOf(processes, i) = 0
         /\ \A k \in 1..Len(processes) : processes[k].pid # SelfPid + i

\* the close handler of a child has sent onProcessEnd while the record of
\* the other child stays in the list
C15_Witness ==
  /\ last.ev = "procClose"
  /\ procs[last.id].endVia # 0
  /\ Len(processes) = 2
  /\ indexOf(processes, last.id) = 0

\* C16: an execution-mode spawn that asks for stdout or stderr relay returns
\* its operation to the caller with or without a Session, an error of a
\* relay sub-stream leaves the operation pending, and the operation settles
\* by the exit code and the observed process error alone.
C16_RelayNeverFailsSpawn ==
  /\ (last.ev = "spawn" /\ last.id # 0)
       => /\ last.ret = deferredAtReturn(procs[last.id].promise)
          /\ procs[last.id].returned
  /\ (last.ev = "streamError")
       => procs[last.id].deferred = "pending"
  /\ (last.ev = "procClose" /\ procs[last.id].promise = "execution")
       => last.ret = settleAtClose(last.err # "none", last.arg)

\* C17: a socket close or a mux error changes nothing of the process list
\* and of the children: no record is dropped, no signal is delivered, and
\* every pending execution-mode operation is as pending as before.
C17_TeardownLeavesChildren ==
  [][last'.ev \in {"socketClose", "muxError"}
       => /\ UNCHANGED children
          /\ last'.arg \notin Signals]_vars

\* the socket of a Session has closed while a child spawned under that
\* Session in execution mode runs with its operation pending
C17_Witness ==
  /\ last.ev = "socketClose"
  /\ rpc = 0
  /\ \E i \in Procs :
       /\ procs[i].st = "running"
       /\ procs[i].promise = "execution"
       /\ procs[i].masterRpc = last.id
       /\ procs[i].deferred = "pending"
       /\ procs[i].pipes # {}
       /\ indexOf(processes, i) > 0

\* C18: the "created" notification of an execution-mode spawn is made at
\* most once, by the nextTick function that follows the launch and only if
\* no process error was seen by then, while the operation is pending; once
\* the close handler has run no notification is left to come.
C18_CreatedOnceBeforeSettle ==
  \A i \in Procs :
    /\ procs[i].notified <= 1
    /\ procs[i].notified = 1
         => /\ procs[i].st = "running"
            /\ procs[i].promise = "execution"
            /\ procs[i].returned
            /\ procs[i].deferred = "pending"
    /\ procs[i].pc = "notifyNT"
         => /\ procs[i].st = "running"
            /\ procs[i].deferred = "pending"
            /\ procs[i].notified = 0
    /\ procs[i].st \in {"closed", "unused"} => procs[i].pc = "idle"
    /\ (last.ev = "nextTick" /\ last.id = i)
         => procs[i].notified = IF procs[i].lastProcError THEN 0 ELSE 1

\* the nextTick function has just notified "created" for a running child
C18_Witness ==
  /\ last.ev = "nextTick"
  /\ procs[last.id].notified = 1
  /\ procs[last.id].st = "running"
  /\ procs[last.id].deferred = "pending"

\* C19: the close of a socket clears rawSocket, mux and rpc only when they
\* belong to that socket; when rawSocket is a newer socket, the late close
\* of an earlier one leaves all three as they are.
C19_CloseTearsOwnSessionOnly ==
  [][(last'.ev = "socketClose" /\ rawSocket # 0 /\ rawSocket # last'.id)
       => UNCHANGED session]_vars

\* C20: when the operation connect returned is fulfilled by the 'connect'
\* of its socket, the Session exists: mux and rpc are set, built on that
\* socket.
C20_FulfilledConnectHasSession ==
  (last.ev = "socketConnect" /\ last.ret = "fulfilled")
    => (rpc = last.id /\ mux = last.id /\ muxSt[last.id] = "alive")
=============================================================================
